---------------------------- MODULE Spec2Model ----------------------------
(***************************************************************************)
(* Model of bintrees' unbalanced BinaryTree (class BinaryTree over         *)
(* CPYTHON_ABCTree over _ABCTree) as found in                              *)
(* src/project/bintrees-2.0.2/tests/test_all_trees.py.                     *)
(*                                                                         *)
(* A Node is exclusively owned by its parent (there are no back pointers   *)
(* and no node has two parents), so the node graph hanging off _root is    *)
(* written as a nested value: Nil for Python's None, and a record          *)
(* [key, value, left, right] for a Node.  A reference to a node that the   *)
(* code keeps in a local variable (parent, node, replacement, the          *)
(* traversal stack) is the path of directions (0 = left, 1 = right) that   *)
(* leads from the root to that node.                                       *)
(*                                                                         *)
(* What a call hands back is a tuple whose first element names the         *)
(* outcome: <<"return", v>>, <<"item", k, v>>, <<"None">> (the call        *)
(* returned None), <<"True">>, <<"False">>, and <<"KeyError">>,            *)
(* <<"ValueError">> for a raised exception.                                *)
(*                                                                         *)
(* Spec is the life of one tree under the calls that change it.  SpecCall  *)
(* and SpecDict are one call on a tree built by BinaryTree(items), SpecSet *)
(* is one call of the set algebra or one import of an exported state, and  *)
(* SpecIter is a traversal with inserts between its steps.                 *)
(***************************************************************************)
EXTENDS Integers, Sequences, FiniteSets, TLC

VARIABLES root, count, last, gen

vars == <<root, count, last, gen>>

\* Keys are 1..MaxKey.  Values are opaque to the tree, which only stores
\* and returns them: two of them tell an overwritten value from a kept one.
MaxKey == 4

Keys == 1..MaxKey
Values == {1, 2}

\* Python's None where a key is expected (start_key=None, end_key=None).
NoKey == 0

Nil == <<>>

Node(key, value) == [key |-> key, value |-> value, left |-> Nil, right |-> Nil]

\* Node.__getitem__: 0 is left, anything else is right.
Child(node, direction) == IF direction = 0 THEN node.left ELSE node.right

\* Node.__setitem__
SetChild(node, direction, sub) ==
    IF direction = 0 THEN [node EXCEPT !.left = sub] ELSE [node EXCEPT !.right = sub]

\* The node a path refers to: node[d1][d2]... starting at t.
RECURSIVE Sub(_, _)
Sub(t, p) == IF p = <<>> THEN t ELSE Sub(Child(t, Head(p)), Tail(p))

\* The tree t after the slot that path p names was assigned sub
\* (self._root = sub for the empty path, parent[direction] = sub otherwise).
RECURSIVE Graft(_, _, _)
Graft(t, p, sub) ==
    IF p = <<>> THEN sub
    ELSE SetChild(t, Head(p), Graft(Child(t, Head(p)), Tail(p), sub))

\* The tree t after node.key, node.value = key, value for the node at path p.
SetItem(t, p, key, value) ==
    LET node == Sub(t, p)
    IN  Graft(t, p, [node EXCEPT !.key = key, !.value = value])

\* The tree object: self._root and self._count.
Tree(r, c) == [root |-> r, count |-> c]

EmptyTree == Tree(Nil, 0)

Self == Tree(root, count)

is_empty(T) == T.count = 0

---------------------------------------------------------------------------
\* CPYTHON_ABCTree.get_value: the loop falls through on a missing key and the
\* function returns None (the raise is commented out in the source).
RECURSIVE get_value_loop(_, _)
get_value_loop(node, key) ==
    IF node = Nil THEN <<"None">>
    ELSE IF key = node.key THEN <<"return", node.value>>
    ELSE IF key < node.key THEN get_value_loop(node.left, key)
    ELSE get_value_loop(node.right, key)

get_value(T, key) == get_value_loop(T.root, key)

\* _ABCTree.__contains__: True unless get_value raised KeyError.
contains(T, key) ==
    IF get_value(T, key) = <<"KeyError">> THEN <<"False">> ELSE <<"True">>

---------------------------------------------------------------------------
\* The descent of insert with the two directions exchanged.
RECURSIVE insert_loop_mirrored(_, _, _)
insert_loop_mirrored(t, p, key) ==
    LET node == Sub(t, p)
    IN  IF node = Nil THEN p
        ELSE IF key = node.key THEN p
        ELSE LET direction == IF key <= node.key THEN 1 ELSE 0
             IN  insert_loop_mirrored(t, Append(p, direction), key)

\* BinaryTree.insert: the descent; p is the path of `node`, so `parent` is
\* its front and `direction` its last element.  Gives the path at which the
\* loop breaks.
RECURSIVE insert_loop(_, _, _)
insert_loop(t, p, key) ==
    LET node == Sub(t, p)
    IN  IF node = Nil THEN p
        ELSE IF key = node.key THEN p
        ELSE LET direction == IF key <= node.key THEN 0 ELSE 1
             IN  insert_loop(t, Append(p, direction), key)

\* insert with the item counted again when an existing key is overwritten.
insert_counting_overwrite(T, key, value) ==
    IF T.root = Nil
    THEN Tree(Node(key, value), T.count + 1)
    ELSE LET p == insert_loop(T.root, <<>>, key)
         IN  IF Sub(T.root, p) = Nil
             THEN Tree(Graft(T.root, p, Node(key, value)), T.count + 1)
             ELSE Tree(SetItem(T.root, p, key, value), T.count + 1)

\* insert that leaves the value of an existing key as it was.
insert_keeping_value(T, key, value) ==
    IF T.root = Nil
    THEN Tree(Node(key, value), T.count + 1)
    ELSE LET p == insert_loop(T.root, <<>>, key)
         IN  IF Sub(T.root, p) = Nil
             THEN Tree(Graft(T.root, p, Node(key, value)), T.count + 1)
             ELSE T

\* insert that makes the node of a new key the root, with the former root as
\* its child.
insert_as_new_root(T, key, value) ==
    IF T.root = Nil
    THEN Tree(Node(key, value), T.count + 1)
    ELSE LET p == insert_loop(T.root, <<>>, key)
         IN  IF Sub(T.root, p) = Nil
             THEN Tree(SetChild(Node(key, value),
                                IF key <= T.root.key THEN 1 ELSE 0, T.root),
                       T.count + 1)
             ELSE Tree(SetItem(T.root, p, key, value), T.count)

insert(T, key, value) ==
    IF T.root = Nil
    THEN Tree(Node(key, value), T.count + 1)
    ELSE LET p == insert_loop(T.root, <<>>, key)
         IN  IF Sub(T.root, p) = Nil
             THEN Tree(Graft(T.root, p, Node(key, value)), T.count + 1)
             ELSE Tree(SetItem(T.root, p, key, value), T.count)

---------------------------------------------------------------------------
\* BinaryTree.remove, the descent: p is the path of `node`.  Gives
\* <<"found", p>> when key == node.key at p, and <<"KeyError">> when the
\* descent steps onto None.
RECURSIVE remove_loop(_, _, _)
remove_loop(t, p, key) ==
    LET node == Sub(t, p)
    IN  IF key = node.key THEN <<"found", p>>
        ELSE LET direction == IF key < node.key THEN 0 ELSE 1
             IN  IF Child(node, direction) = Nil THEN <<"KeyError">>
                 ELSE remove_loop(t, Append(p, direction), key)

\* The inner loop of remove going right instead of left: the replacement
\* is the largest key of the right subtree.
RECURSIVE replacement_loop_right(_, _)
replacement_loop_right(t, q) ==
    IF Sub(t, q).right # Nil THEN replacement_loop_right(t, Append(q, 1)) ELSE q

\* The inner loop of remove: from `replacement` at path q, go left while a
\* left child exists.
RECURSIVE replacement_loop(_, _)
replacement_loop(t, q) ==
    IF Sub(t, q).left # Nil THEN replacement_loop(t, Append(q, 0)) ELSE q

\* remove_node without `node.value = replacement.value`.
remove_node_keeping_value(t, p) ==
    LET node == Sub(t, p)
    IN  IF node.left # Nil /\ node.right # Nil
        THEN LET q == replacement_loop(t, Append(p, 1))
                 replacement == Sub(t, q)
                 detached == Graft(t, q, replacement.right)
             IN  SetItem(detached, p, replacement.key, node.value)
        ELSE LET down_dir == IF node.left = Nil THEN 1 ELSE 0
             IN  IF p = <<>> THEN Child(node, down_dir)
                 ELSE Graft(t, p, Child(node, down_dir))

\* remove_node with down_dir the wrong way round: the slot gets the absent
\* child and the node's only subtree is lost.
remove_node_wrong_down_dir(t, p) ==
    LET node == Sub(t, p)
    IN  IF node.left # Nil /\ node.right # Nil
        THEN LET q == replacement_loop(t, Append(p, 1))
                 replacement == Sub(t, q)
                 detached == Graft(t, q, replacement.right)
             IN  SetItem(detached, p, replacement.key, replacement.value)
        ELSE LET down_dir == IF node.left = Nil THEN 0 ELSE 1
             IN  IF p = <<>> THEN Child(node, down_dir)
                 ELSE Graft(t, p, Child(node, down_dir))

\* The removal of the node found at path p (the body under `if key == node.key`).
\* remove_node taking the replacement from the left subtree: the node gets
\* the item of its inorder predecessor.
remove_node_by_predecessor(t, p) ==
    LET node == Sub(t, p)
    IN  IF node.left # Nil /\ node.right # Nil
        THEN LET q == replacement_loop_right(t, Append(p, 0))
                 replacement == Sub(t, q)
                 detached == Graft(t, q, replacement.left)
             IN  SetItem(detached, p, replacement.key, replacement.value)
        ELSE LET down_dir == IF node.left = Nil THEN 1 ELSE 0
             IN  IF p = <<>> THEN Child(node, down_dir)
                 ELSE Graft(t, p, Child(node, down_dir))

remove_node(t, p) ==
    LET node == Sub(t, p)
    IN  IF node.left # Nil /\ node.right # Nil
        THEN LET q == replacement_loop(t, Append(p, 1))
                 replacement == Sub(t, q)
                 detached == Graft(t, q, replacement.right)
             IN  SetItem(detached, p, replacement.key, replacement.value)
        ELSE LET down_dir == IF node.left = Nil THEN 1 ELSE 0
             IN  IF p = <<>> THEN Child(node, down_dir)
                 ELSE Graft(t, p, Child(node, down_dir))

\* remove with `self._count -= 1` ahead of the search, so that a failed
\* remove has already lowered count.
remove_counting_first(T, key) ==
    IF T.root = Nil THEN [T |-> T, res |-> <<"KeyError">>]
    ELSE LET found == remove_loop(T.root, <<>>, key)
         IN  IF found[1] = "KeyError"
             THEN [T |-> Tree(T.root, T.count - 1), res |-> <<"KeyError">>]
             ELSE [T |-> Tree(remove_node(T.root, found[2]), T.count - 1),
                   res |-> <<"None">>]

\* BinaryTree.remove: the tree after the call and what the call gave.
remove(T, key) ==
    IF T.root = Nil THEN [T |-> T, res |-> <<"KeyError">>]
    ELSE LET found == remove_loop(T.root, <<>>, key)
         IN  IF found[1] = "KeyError" THEN [T |-> T, res |-> <<"KeyError">>]
             ELSE [T |-> Tree(remove_node(T.root, found[2]), T.count - 1),
                   res |-> <<"None">>]

\* CPYTHON_ABCTree.clear
clear(T) == Tree(Nil, 0)

---------------------------------------------------------------------------
\* The descent of min_item stopping after one step.
leftmost_one_step(node) == IF node.left # Nil THEN node.left ELSE node

\* CPYTHON_ABCTree.min_item / max_item
RECURSIVE leftmost(_)
leftmost(node) == IF node.left # Nil THEN leftmost(node.left) ELSE node

RECURSIVE rightmost(_)
rightmost(node) == IF node.right # Nil THEN rightmost(node.right) ELSE node

min_item(T) ==
    IF is_empty(T) THEN <<"ValueError">>
    ELSE LET node == leftmost(T.root) IN <<"item", node.key, node.value>>

max_item(T) ==
    IF is_empty(T) THEN <<"ValueError">>
    ELSE LET node == rightmost(T.root) IN <<"item", node.key, node.value>>

\* _ABCTree.min_key / max_key
min_key(T) ==
    LET item == min_item(T)
    IN  IF item[1] = "item" THEN <<"return", item[2]>> ELSE item

max_key(T) ==
    LET item == max_item(T)
    IN  IF item[1] = "item" THEN <<"return", item[2]>> ELSE item

\* _ABCTree.pop_min / pop_max: min_item() (or max_item()), then remove(item[0]).
pop_min(T) ==
    LET item == min_item(T)
    IN  IF item[1] # "item" THEN [T |-> T, res |-> item]
        ELSE LET r == remove(T, item[2])
             IN  IF r.res = <<"KeyError">> THEN r ELSE [T |-> r.T, res |-> item]

pop_max(T) ==
    LET item == max_item(T)
    IN  IF item[1] # "item" THEN [T |-> T, res |-> item]
        ELSE LET r == remove(T, item[2])
             IN  IF r.res = <<"KeyError">> THEN r ELSE [T |-> r.T, res |-> item]

\* The descent of pop_item trying the right child first.
RECURSIVE pop_item_loop_right_first(_)
pop_item_loop_right_first(node) ==
    IF node.right # Nil THEN pop_item_loop_right_first(node.right)
    ELSE IF node.left # Nil THEN pop_item_loop_right_first(node.left)
    ELSE node

\* CPYTHON_ABCTree.pop_item, the descent: left if there is a left child,
\* else right if there is a right child, else stop.
RECURSIVE pop_item_loop(_)
pop_item_loop(node) ==
    IF node.left # Nil THEN pop_item_loop(node.left)
    ELSE IF node.right # Nil THEN pop_item_loop(node.right)
    ELSE node

\* pop_item raising on the empty tree what min_item raises there.
pop_item_raising_value_error(T) ==
    IF is_empty(T) THEN [T |-> T, res |-> <<"ValueError">>]
    ELSE LET node == pop_item_loop(T.root)
             r == remove(T, node.key)
         IN  IF r.res = <<"KeyError">> THEN r
             ELSE [T |-> r.T, res |-> <<"item", node.key, node.value>>]

pop_item(T) ==
    IF is_empty(T) THEN [T |-> T, res |-> <<"KeyError">>]
    ELSE LET node == pop_item_loop(T.root)
             r == remove(T, node.key)
         IN  IF r.res = <<"KeyError">> THEN r
             ELSE [T |-> r.T, res |-> <<"item", node.key, node.value>>]

\* _ABCTree.update with one argument: insert every (key, value) in order.
RECURSIVE update(_, _)
update(T, items) ==
    IF items = <<>> THEN T
    ELSE update(insert(T, Head(items)[1], Head(items)[2]), Tail(items))

\* BinaryTree(items): __init__, which updates the empty tree from items.
BinaryTree(items) == update(EmptyTree, items)

---------------------------------------------------------------------------
\* CPYTHON_ABCTree._get_in_range_func: the closure it returns, as a record.
\* An absent start_key becomes self.min_key() at the time of the call.
get_in_range_func(T, start_key, end_key) ==
    IF start_key = NoKey /\ end_key = NoKey
    THEN [all |-> TRUE, start_key |-> NoKey, end_key |-> NoKey]
    ELSE [all |-> FALSE,
          start_key |-> IF start_key = NoKey THEN min_key(T)[2] ELSE start_key,
          end_key |-> end_key]

\* The range test with the end bound included.
in_range_end_inclusive(f, x) ==
    IF f.all THEN TRUE
    ELSE IF f.end_key = NoKey THEN x >= f.start_key
    ELSE f.start_key <= x /\ x <= f.end_key

in_range(f, x) ==
    IF f.all THEN TRUE
    ELSE IF f.end_key = NoKey THEN x >= f.start_key
    ELSE f.start_key <= x /\ x < f.end_key

\* The generator CPYTHON_ABCTree._iter_items at its start: node = self._root,
\* stack = [], go_left = True.  `reverse` swaps the two attrgetters.
iter_start == [node |-> <<>>, stack |-> <<>>, go_left |-> TRUE, done |-> FALSE]

\* One turn of the `while True` loop of _iter_items over the tree t: the
\* generator's next state and what it yielded in this turn (at most one item).
iter_turn(t, st, f, reverse) ==
    LET node == Sub(t, st.node)
        l == IF reverse THEN 1 ELSE 0
        r == IF reverse THEN 0 ELSE 1
    IN  IF Child(node, l) # Nil /\ st.go_left
        THEN [st |-> [st EXCEPT !.stack = Append(st.stack, st.node),
                                !.node = Append(st.node, l)],
              yield |-> <<>>]
        ELSE [st |-> IF Child(node, r) # Nil
                     THEN [st EXCEPT !.node = Append(st.node, r), !.go_left = TRUE]
                     ELSE IF Len(st.stack) = 0
                     THEN [st EXCEPT !.done = TRUE]
                     ELSE [st EXCEPT !.node = st.stack[Len(st.stack)],
                                     !.stack = SubSeq(st.stack, 1, Len(st.stack) - 1),
                                     !.go_left = FALSE],
              yield |-> IF in_range(f, node.key)
                        THEN <<<<node.key, node.value>>>> ELSE <<>>]

\* _iter_items from the yield on: what the generator does when it is
\* resumed, up to the end of that turn of the loop.
iter_after_yield(t, st, reverse) ==
    LET node == Sub(t, st.node)
        r == IF reverse THEN 0 ELSE 1
    IN  IF Child(node, r) # Nil
        THEN [st EXCEPT !.node = Append(st.node, r), !.go_left = TRUE]
        ELSE IF Len(st.stack) = 0
        THEN [st EXCEPT !.done = TRUE]
        ELSE [st EXCEPT !.node = st.stack[Len(st.stack)],
                        !.stack = SubSeq(st.stack, 1, Len(st.stack) - 1),
                        !.go_left = FALSE]

\* to the next yield with the descent never taken: the node the generator
\* stands on is yielded whatever lies to its left.
RECURSIVE iter_to_yield_without_descent(_, _, _, _)
iter_to_yield_without_descent(t, st, f, reverse) ==
    IF st.done THEN st
    ELSE IF in_range(f, Sub(t, st.node).key) THEN st
    ELSE iter_to_yield_without_descent(t, iter_after_yield(t, st, reverse), f, reverse)

\* _iter_items from the top of the loop to the next yield: the generator
\* suspended at that yield (node is the node it yields), or done.
RECURSIVE iter_to_yield(_, _, _, _)
iter_to_yield(t, st, f, reverse) ==
    IF st.done THEN st
    ELSE LET node == Sub(t, st.node)
             l == IF reverse THEN 1 ELSE 0
         IN  IF Child(node, l) # Nil /\ st.go_left
             THEN iter_to_yield(t, [st EXCEPT !.stack = Append(st.stack, st.node),
                                              !.node = Append(st.node, l)],
                                f, reverse)
             ELSE IF in_range(f, node.key) THEN st
             ELSE iter_to_yield(t, iter_after_yield(t, st, reverse), f, reverse)

\* The generator run to its end over an unchanging tree: all it yields.
RECURSIVE iter_run(_, _, _, _)
iter_run(t, st, f, reverse) ==
    IF st.done THEN <<>>
    ELSE LET turn == iter_turn(t, st, f, reverse)
         IN  turn.yield \o iter_run(t, turn.st, f, reverse)

\* CPYTHON_ABCTree.iter_items, consumed to the end: [] for an empty tree.
iter_items(T, start_key, end_key, reverse) ==
    IF is_empty(T) THEN <<>>
    ELSE iter_run(T.root, iter_start, get_in_range_func(T, start_key, end_key), reverse)

\* _ABCTree.key_slice, consumed to the end.
key_slice(T, start_key, end_key, reverse) ==
    LET items == iter_items(T, start_key, end_key, reverse)
    IN  [i \in 1..Len(items) |-> items[i][1]]

\* remove_items that stops after the first key.
remove_items_first_only(T, keys) ==
    IF keys = <<>> THEN [T |-> T, res |-> <<"None">>]
    ELSE LET r == remove(T, Head(keys))
         IN  IF r.res = <<"KeyError">> THEN r ELSE [T |-> r.T, res |-> <<"None">>]

\* _ABCTree.remove_items: remove the keys in order; a KeyError ends the loop
\* and leaves the removals made so far.
RECURSIVE remove_items(_, _)
remove_items(T, keys) ==
    IF keys = <<>> THEN [T |-> T, res |-> <<"None">>]
    ELSE LET r == remove(T, Head(keys))
         IN  IF r.res = <<"KeyError">> THEN r ELSE remove_items(r.T, Tail(keys))

\* _ABCTree.__delitem__ with a slice: remove_items(key_slice(start, stop)).
delslice(T, start_key, end_key) ==
    remove_items(T, key_slice(T, start_key, end_key, FALSE))

---------------------------------------------------------------------------
\* CPYTHON_ABCTree.succ_item, the descent: where it ends (node, None as Nil)
\* and the candidate succ_node recorded on the way.
RECURSIVE succ_loop(_, _, _)
succ_loop(node, succ_node, key) ==
    IF node = Nil THEN [node |-> Nil, succ_node |-> succ_node]
    ELSE IF key = node.key THEN [node |-> node, succ_node |-> succ_node]
    ELSE IF key < node.key
    THEN succ_loop(node.left,
                   IF succ_node = Nil \/ node.key < succ_node.key
                   THEN node ELSE succ_node,
                   key)
    ELSE succ_loop(node.right, succ_node, key)

\* succ_item that answers with the recorded candidate when the key is not
\* in the tree (what ceiling_item does) instead of raising KeyError.
succ_item_of_missing_key(T, key) ==
    LET d == succ_loop(T.root, Nil, key)
    IN  IF d.node = Nil
        THEN IF d.succ_node = Nil THEN <<"KeyError">>
             ELSE <<"item", d.succ_node.key, d.succ_node.value>>
        ELSE IF d.node.right # Nil
        THEN LET node == leftmost(d.node.right)
                 succ_node == IF d.succ_node = Nil THEN node
                              ELSE IF node.key < d.succ_node.key THEN node
                              ELSE d.succ_node
             IN  <<"item", succ_node.key, succ_node.value>>
        ELSE IF d.succ_node = Nil THEN <<"KeyError">>
        ELSE <<"item", d.succ_node.key, d.succ_node.value>>

succ_item(T, key) ==
    LET d == succ_loop(T.root, Nil, key)
    IN  IF d.node = Nil THEN <<"KeyError">>
        ELSE IF d.node.right # Nil
        THEN LET node == leftmost(d.node.right)
                 succ_node == IF d.succ_node = Nil THEN node
                              ELSE IF node.key < d.succ_node.key THEN node
                              ELSE d.succ_node
             IN  <<"item", succ_node.key, succ_node.value>>
        ELSE IF d.succ_node = Nil THEN <<"KeyError">>
        ELSE <<"item", d.succ_node.key, d.succ_node.value>>

\* The descent of prev_item recording only the first candidate it meets.
RECURSIVE prev_loop_first_candidate(_, _, _)
prev_loop_first_candidate(node, prev_node, key) ==
    IF node = Nil THEN [node |-> Nil, prev_node |-> prev_node]
    ELSE IF key = node.key THEN [node |-> node, prev_node |-> prev_node]
    ELSE IF key < node.key
    THEN prev_loop_first_candidate(node.left, prev_node, key)
    ELSE prev_loop_first_candidate(node.right,
                                   IF prev_node = Nil THEN node ELSE prev_node,
                                   key)

\* CPYTHON_ABCTree.prev_item
RECURSIVE prev_loop(_, _, _)
prev_loop(node, prev_node, key) ==
    IF node = Nil THEN [node |-> Nil, prev_node |-> prev_node]
    ELSE IF key = node.key THEN [node |-> node, prev_node |-> prev_node]
    ELSE IF key < node.key
    THEN prev_loop(node.left, prev_node, key)
    ELSE prev_loop(node.right,
                   IF prev_node = Nil \/ node.key > prev_node.key
                   THEN node ELSE prev_node,
                   key)

\* prev_item that answers with the recorded candidate when the key is not
\* in the tree instead of raising KeyError.
prev_item_of_missing_key(T, key) ==
    LET d == prev_loop(T.root, Nil, key)
    IN  IF d.node = Nil
        THEN IF d.prev_node = Nil THEN <<"KeyError">>
             ELSE <<"item", d.prev_node.key, d.prev_node.value>>
        ELSE IF d.node.left # Nil
        THEN LET node == rightmost(d.node.left)
                 prev_node == IF d.prev_node = Nil THEN node
                              ELSE IF node.key > d.prev_node.key THEN node
                              ELSE d.prev_node
             IN  <<"item", prev_node.key, prev_node.value>>
        ELSE IF d.prev_node = Nil THEN <<"KeyError">>
        ELSE <<"item", d.prev_node.key, d.prev_node.value>>

prev_item(T, key) ==
    LET d == prev_loop(T.root, Nil, key)
    IN  IF d.node = Nil THEN <<"KeyError">>
        ELSE IF d.node.left # Nil
        THEN LET node == rightmost(d.node.left)
                 prev_node == IF d.prev_node = Nil THEN node
                              ELSE IF node.key > d.prev_node.key THEN node
                              ELSE d.prev_node
             IN  <<"item", prev_node.key, prev_node.value>>
        ELSE IF d.prev_node = Nil THEN <<"KeyError">>
        ELSE <<"item", d.prev_node.key, d.prev_node.value>>

\* _ABCTree.succ_key / prev_key: item[0], or the KeyError of succ_item / prev_item.
succ_key(T, key) ==
    LET item == succ_item(T, key)
    IN  IF item[1] = "item" THEN <<"return", item[2]>> ELSE item

prev_key(T, key) ==
    LET item == prev_item(T, key)
    IN  IF item[1] = "item" THEN <<"return", item[2]>> ELSE item

\* floor_item without the return on an exact match: an equal key sends the
\* descent left, as a smaller one does.
RECURSIVE floor_item_loop_strict(_, _, _)
floor_item_loop_strict(node, prev_node, key) ==
    IF node = Nil
    THEN IF prev_node # Nil THEN <<"item", prev_node.key, prev_node.value>>
         ELSE <<"KeyError">>
    ELSE IF key <= node.key THEN floor_item_loop_strict(node.left, prev_node, key)
    ELSE floor_item_loop_strict(node.right,
                                IF prev_node = Nil \/ node.key > prev_node.key
                                THEN node ELSE prev_node,
                                key)

\* CPYTHON_ABCTree.floor_item: the loop and what follows it.
RECURSIVE floor_item_loop(_, _, _)
floor_item_loop(node, prev_node, key) ==
    IF node = Nil
    THEN IF prev_node # Nil THEN <<"item", prev_node.key, prev_node.value>>
         ELSE <<"KeyError">>
    ELSE IF key = node.key THEN <<"item", node.key, node.value>>
    ELSE IF key < node.key THEN floor_item_loop(node.left, prev_node, key)
    ELSE floor_item_loop(node.right,
                         IF prev_node = Nil \/ node.key > prev_node.key
                         THEN node ELSE prev_node,
                         key)

floor_item(T, key) == floor_item_loop(T.root, Nil, key)

\* ceiling_item recording only the first candidate it meets.
RECURSIVE ceiling_item_loop_first_candidate(_, _, _)
ceiling_item_loop_first_candidate(node, succ_node, key) ==
    IF node = Nil
    THEN IF succ_node # Nil THEN <<"item", succ_node.key, succ_node.value>>
         ELSE <<"KeyError">>
    ELSE IF key = node.key THEN <<"item", node.key, node.value>>
    ELSE IF key > node.key
    THEN ceiling_item_loop_first_candidate(node.right, succ_node, key)
    ELSE ceiling_item_loop_first_candidate(node.left,
                                           IF succ_node = Nil THEN node ELSE succ_node,
                                           key)

\* CPYTHON_ABCTree.ceiling_item: the loop and what follows it.
RECURSIVE ceiling_item_loop(_, _, _)
ceiling_item_loop(node, succ_node, key) ==
    IF node = Nil
    THEN IF succ_node # Nil THEN <<"item", succ_node.key, succ_node.value>>
         ELSE <<"KeyError">>
    ELSE IF key = node.key THEN <<"item", node.key, node.value>>
    ELSE IF key > node.key THEN ceiling_item_loop(node.right, succ_node, key)
    ELSE ceiling_item_loop(node.left,
                           IF succ_node = Nil \/ node.key < succ_node.key
                           THEN node ELSE succ_node,
                           key)

ceiling_item(T, key) == ceiling_item_loop(T.root, Nil, key)

\* _ABCTree.floor_key / ceiling_key: item[0], or the KeyError of the item call.
floor_key(T, key) ==
    LET item == floor_item(T, key)
    IN  IF item[1] = "item" THEN <<"return", item[2]>> ELSE item

ceiling_key(T, key) ==
    LET item == ceiling_item(T, key)
    IN  IF item[1] = "item" THEN <<"return", item[2]>> ELSE item

---------------------------------------------------------------------------
\* Python's None where a value is stored: what get_value hands back for a
\* key it does not find.
NoneValue == 0

\* The Python object a call gave back, None included.
value_of(res) == IF res = <<"None">> THEN NoneValue ELSE res[2]

\* _ABCTree.keys, consumed to the end.
tree_keys(T, reverse) ==
    LET items == iter_items(T, NoKey, NoKey, reverse)
    IN  [i \in 1..Len(items) |-> items[i][1]]

frozenset(seq) == {seq[i] : i \in 1..Len(seq)}

\* _build_sets: one frozenset of keys per tree.
build_sets(trees) == [i \in 1..Len(trees) |-> frozenset(tree_keys(trees[i], FALSE))]

\* _ABCTree.__getitem__ with a key that is not a slice.
getitem(T, key) == get_value(T, key)

\* _ABCTree.get: get_value, or default on KeyError.
get(T, key, default) ==
    LET r == get_value(T, key)
    IN  IF r = <<"KeyError">> THEN <<"return", default>> ELSE r

\* _multi_tree_get: tree[key] of the first tree that does not raise KeyError.
RECURSIVE multi_tree_get(_, _)
multi_tree_get(trees, key) ==
    IF trees = <<>> THEN <<"KeyError">>
    ELSE LET r == getitem(Head(trees), key)
         IN  IF r = <<"KeyError">> THEN multi_tree_get(Tail(trees), key) ELSE r

\* rkeys of union and of intersection.
union_rkeys(T, trees) ==
    frozenset(tree_keys(T, FALSE)) \cup UNION {build_sets(trees)[i] : i \in 1..Len(trees)}

intersection_rkeys(T, trees) ==
    {k \in frozenset(tree_keys(T, FALSE)) : \A i \in 1..Len(trees) : k \in build_sets(trees)[i]}

\* _ABCTree.union; order is the order in which the frozenset rkeys is
\* iterated, which the language leaves open.
union(T, trees, order) ==
    LET all_trees == <<T>> \o trees
        got == [i \in 1..Len(order) |-> multi_tree_get(all_trees, order[i])]
    IN  IF \E i \in 1..Len(order) : got[i] = <<"KeyError">> THEN <<"KeyError">>
        ELSE <<"tree", BinaryTree([i \in 1..Len(order) |-> <<order[i], value_of(got[i])>>])>>

\* intersection with the values looked up in the last operand.
intersection_last_operand_values(T, trees, order) ==
    LET from == trees[Len(trees)]
    IN  <<"tree", BinaryTree([i \in 1..Len(order) |->
                                <<order[i], value_of(get(from, order[i], NoneValue))>>])>>

\* _ABCTree.intersection, its rkeys iterated in the given order.
intersection(T, trees, order) ==
    <<"tree", BinaryTree([i \in 1..Len(order) |->
                            <<order[i], value_of(get(T, order[i], NoneValue))>>])>>

\* CPYTHON_ABCTree.foreach, _traverse(node): the calls func(key, value) it
\* makes, in order.
RECURSIVE traverse(_, _)
traverse(node, order) ==
    LET call == <<<<node.key, node.value>>>>
    IN  (IF order = -1 THEN call ELSE <<>>)
        \o (IF node.left # Nil THEN traverse(node.left, order) ELSE <<>>)
        \o (IF order = 0 THEN call ELSE <<>>)
        \o (IF node.right # Nil THEN traverse(node.right, order) ELSE <<>>)
        \o (IF order = 1 THEN call ELSE <<>>)

\* foreach: _traverse(self._root) reads node.key (or node.left) of None when
\* the tree has no root, which raises AttributeError.
foreach(T, order) ==
    IF T.root = Nil THEN <<"AttributeError">>
    ELSE <<"calls", traverse(T.root, order)>>

\* copy with foreach in its default order, which is inorder.
copy_inorder(T) ==
    LET f == foreach(T, 0)
    IN  IF f[1] = "AttributeError" THEN f
        ELSE <<"tree", update(EmptyTree, f[2])>>

\* _ABCTree.copy: a new tree, and tree.insert for every call of foreach in
\* preorder.
copy(T) ==
    LET f == foreach(T, -1)
    IN  IF f[1] = "AttributeError" THEN f
        ELSE <<"tree", update(EmptyTree, f[2])>>

---------------------------------------------------------------------------
\* _ABCTree.__getstate__: dict(self.items()), a dict that lists the items in
\* the order they were put in, which is ascending key order.
getstate(T) == iter_items(T, NoKey, NoKey, FALSE)

\* __setstate__ without the reset of _root and _count.
setstate_keeping_items(T, state) == update(T, state)

\* _ABCTree.__setstate__: forget what the object held, then update(state).
setstate(T, state) == update(EmptyTree, state)

\* pop that returns the value and leaves the item in the tree.
pop_keeping_item(T, key, args) ==
    LET handler == IF Len(args) = 0 THEN <<"KeyError">> ELSE <<"return", args[1]>>
    IN  IF Len(args) > 1 THEN [T |-> T, res |-> <<"TypeError">>]
        ELSE LET value == get_value(T, key)
             IN  IF value = <<"KeyError">> THEN [T |-> T, res |-> handler]
                 ELSE LET r == remove(T, key)
                      IN  IF r.res = <<"KeyError">> THEN [T |-> r.T, res |-> handler]
                          ELSE [T |-> T, res |-> value]

\* _ABCTree.pop(key, *args): handler is the `except KeyError` clause, which
\* is entered from get_value or from remove.
pop(T, key, args) ==
    LET handler == IF Len(args) = 0 THEN <<"KeyError">> ELSE <<"return", args[1]>>
    IN  IF Len(args) > 1 THEN [T |-> T, res |-> <<"TypeError">>]
        ELSE LET value == get_value(T, key)
             IN  IF value = <<"KeyError">> THEN [T |-> T, res |-> handler]
                 ELSE LET r == remove(T, key)
                      IN  IF r.res = <<"KeyError">> THEN [T |-> r.T, res |-> handler]
                          ELSE [T |-> r.T, res |-> value]

\* min(len(self), n)
min_len(T, n) == IF T.count < n THEN T.count ELSE n

\* [self.pop_min() for _ in range(m)] and the same with pop_max: the tree
\* left and the list made, or the error that ended the loop.
RECURSIVE pop_min_times(_, _)
pop_min_times(T, m) ==
    IF m <= 0 THEN [T |-> T, res |-> <<"return", <<>>>>]
    ELSE LET r == pop_min(T)
         IN  IF r.res[1] # "item" THEN r
             ELSE LET rest == pop_min_times(r.T, m - 1)
                  IN  IF rest.res[1] # "return" THEN rest
                      ELSE [T |-> rest.T,
                            res |-> <<"return", <<<<r.res[2], r.res[3]>>>> \o rest.res[2]>>]

RECURSIVE pop_max_times(_, _)
pop_max_times(T, m) ==
    IF m <= 0 THEN [T |-> T, res |-> <<"return", <<>>>>]
    ELSE LET r == pop_max(T)
         IN  IF r.res[1] # "item" THEN r
             ELSE LET rest == pop_max_times(r.T, m - 1)
                  IN  IF rest.res[1] # "return" THEN rest
                      ELSE [T |-> rest.T,
                            res |-> <<"return", <<<<r.res[2], r.res[3]>>>> \o rest.res[2]>>]

\* [next(items) for _ in range(m)]: the first m items of the traversal, or
\* StopIteration when it has fewer.
next_times(items, m) ==
    IF m <= 0 THEN <<"return", <<>>>>
    ELSE IF m > Len(items) THEN <<"StopIteration">>
    ELSE <<"return", SubSeq(items, 1, m)>>

\* _ABCTree.nsmallest
nsmallest(T, n, pop_) ==
    IF pop_ THEN pop_min_times(T, min_len(T, n))
    ELSE [T |-> T, res |-> next_times(iter_items(T, NoKey, NoKey, FALSE), min_len(T, n))]

\* nlargest reading the items in ascending order.
nlargest_forward(T, n, pop_) ==
    IF pop_ THEN pop_min_times(T, min_len(T, n))
    ELSE [T |-> T, res |-> next_times(iter_items(T, NoKey, NoKey, FALSE), min_len(T, n))]

\* _ABCTree.nlargest
nlargest(T, n, pop_) ==
    IF pop_ THEN pop_max_times(T, min_len(T, n))
    ELSE [T |-> T, res |-> next_times(iter_items(T, NoKey, NoKey, TRUE), min_len(T, n))]

\* `while not tree.is_empty(): key, value = tree.pop_item()`: the tree left
\* and the items in the order they came.
RECURSIVE pop_item_all(_)
pop_item_all(T) ==
    IF is_empty(T) THEN [T |-> T, res |-> <<"return", <<>>>>]
    ELSE LET r == pop_item(T)
         IN  IF r.res[1] # "item" THEN r
             ELSE LET rest == pop_item_all(r.T)
                  IN  IF rest.res[1] # "return" THEN rest
                      ELSE [T |-> rest.T,
                            res |-> <<"return", <<<<r.res[2], r.res[3]>>>> \o rest.res[2]>>]

---------------------------------------------------------------------------
\* The arguments the calls are tried with.
Pairs == Keys \X Values

\* update(E): E is a list of two (key, value) pairs, the second with the
\* same key as the first or the next one, and with another value.
UpdateArgs ==
    {e \in Pairs \X Pairs : e[2][1] \in {e[1][1], e[1][1] + 1} /\ e[2][2] # e[1][2]}

\* del T[s:e]: each bound is a key or absent, s <= e when both are given.
SliceArgs ==
    {b \in (Keys \cup {NoKey}) \X (Keys \cup {NoKey}) :
        b[1] = NoKey \/ b[2] = NoKey \/ b[1] <= b[2]}

\* The keys stored under node, by plain recursion over the node graph.
RECURSIVE KeysOf(_)
KeysOf(node) ==
    IF node = Nil THEN {}
    ELSE KeysOf(node.left) \cup {node.key} \cup KeysOf(node.right)

\* All orders in which the keys of S can be listed.
RECURSIVE Orders(_)
Orders(S) ==
    IF S = {} THEN {<<>>}
    ELSE UNION {{<<k>> \o o : o \in Orders(S \ {k})} : k \in S}

\* The lists of (key, value) pairs with pairwise distinct keys.
RECURSIVE ItemLists(_)
ItemLists(S) ==
    {<<>>} \cup UNION {{<<<<k, v>>>> \o l : l \in ItemLists(S \ {k}), v \in Values} : k \in S}

---------------------------------------------------------------------------
\* The iterator a client holds on to, from T.iter_items().  pc tells where
\* it stands: "none" (no iterator was asked for), "list" (the [] that
\* iter_items returns for an empty tree), "created" (a generator whose body
\* has not begun), "yielded" (suspended at the yield), "done".  st is the
\* frame of _iter_items.  out lists the keys it has yielded so far and
\* start is the set of keys the tree held when iter_items was called.
NoGen == [pc |-> "none", st |-> iter_start, out |-> <<>>, start |-> {}]

---------------------------------------------------------------------------
\* The state after construction, BinaryTree(): no root, no items.
Init ==
    /\ root = Nil
    /\ count = 0
    /\ last = [op |-> "init", arg |-> <<>>, res |-> <<"None">>]
    /\ gen = NoGen

\* Every action is one call on the tree; `last` records the call, its
\* arguments and what it gave back.
Insert(key, value) ==
    LET T == insert(Self, key, value)
    IN  /\ root' = T.root
        /\ count' = T.count
        /\ last' = [op |-> "insert", arg |-> <<key, value>>, res |-> <<"None">>]
        /\ UNCHANGED gen

Remove(key) ==
    LET r == remove(Self, key)
    IN  /\ root' = r.T.root
        /\ count' = r.T.count
        /\ last' = [op |-> "remove", arg |-> <<key>>, res |-> r.res]
        /\ UNCHANGED gen

Clear ==
    LET T == clear(Self)
    IN  /\ root' = T.root
        /\ count' = T.count
        /\ last' = [op |-> "clear", arg |-> <<>>, res |-> <<"None">>]
        /\ UNCHANGED gen

PopItem ==
    LET r == pop_item(Self)
    IN  /\ root' = r.T.root
        /\ count' = r.T.count
        /\ last' = [op |-> "pop_item", arg |-> <<>>, res |-> r.res]
        /\ UNCHANGED gen

PopMin ==
    LET r == pop_min(Self)
    IN  /\ root' = r.T.root
        /\ count' = r.T.count
        /\ last' = [op |-> "pop_min", arg |-> <<>>, res |-> r.res]
        /\ UNCHANGED gen

PopMax ==
    LET r == pop_max(Self)
    IN  /\ root' = r.T.root
        /\ count' = r.T.count
        /\ last' = [op |-> "pop_max", arg |-> <<>>, res |-> r.res]
        /\ UNCHANGED gen

Update(items) ==
    LET T == update(Self, items)
    IN  /\ root' = T.root
        /\ count' = T.count
        /\ last' = [op |-> "update", arg |-> <<>>, res |-> <<"None">>]
        /\ UNCHANGED gen

\* del T[start_key:end_key]
DelSlice(start_key, end_key) ==
    LET r == delslice(Self, start_key, end_key)
    IN  /\ root' = r.T.root
        /\ count' = r.T.count
        /\ last' = [op |-> "delslice", arg |-> <<>>, res |-> r.res]
        /\ UNCHANGED gen

\* The tree's life: any sequence of the calls that change it.
Next ==
    \/ \E key \in Keys, value \in Values : Insert(key, value)
    \/ \E key \in Keys : Remove(key)
    \/ Clear
    \/ PopItem
    \/ PopMin
    \/ PopMax
    \/ \E items \in UpdateArgs : Update(items)
    \/ \E b \in SliceArgs : DelSlice(b[1], b[2])

Spec == Init /\ [][Next]_vars

---------------------------------------------------------------------------
\* One call on a tree built by inserts: the tree is BinaryTree(items) for a
\* list of items, and one call is made on it.
InitCall ==
    /\ \E items \in ItemLists(Keys) :
          LET T == BinaryTree(items) IN root = T.root /\ count = T.count
    /\ last = [op |-> "init", arg |-> <<>>, res |-> <<"None">>]
    /\ gen = NoGen

GetValue(key) ==
    /\ last.op = "init"
    /\ last' = [op |-> "get_value", arg |-> <<key>>, res |-> get_value(Self, key)]
    /\ UNCHANGED <<root, count, gen>>

Contains(key) ==
    /\ last.op = "init"
    /\ last' = [op |-> "contains", arg |-> <<key>>, res |-> contains(Self, key)]
    /\ UNCHANGED <<root, count, gen>>

SuccItem(key) ==
    /\ last.op = "init"
    /\ last' = [op |-> "succ_item", arg |-> <<key>>, res |-> succ_item(Self, key)]
    /\ UNCHANGED <<root, count, gen>>

PrevItem(key) ==
    /\ last.op = "init"
    /\ last' = [op |-> "prev_item", arg |-> <<key>>, res |-> prev_item(Self, key)]
    /\ UNCHANGED <<root, count, gen>>

SuccKey(key) ==
    /\ last.op = "init"
    /\ last' = [op |-> "succ_key", arg |-> <<key>>, res |-> succ_key(Self, key)]
    /\ UNCHANGED <<root, count, gen>>

PrevKey(key) ==
    /\ last.op = "init"
    /\ last' = [op |-> "prev_key", arg |-> <<key>>, res |-> prev_key(Self, key)]
    /\ UNCHANGED <<root, count, gen>>

FloorKey(key) ==
    /\ last.op = "init"
    /\ last' = [op |-> "floor_key", arg |-> <<key>>, res |-> floor_key(Self, key)]
    /\ UNCHANGED <<root, count, gen>>

CeilingKey(key) ==
    /\ last.op = "init"
    /\ last' = [op |-> "ceiling_key", arg |-> <<key>>, res |-> ceiling_key(Self, key)]
    /\ UNCHANGED <<root, count, gen>>

\* list(T.iter_items(start_key, end_key, reverse))
IterItems(start_key, end_key, reverse) ==
    /\ last.op = "init"
    /\ last' = [op |-> "iter_items", arg |-> <<start_key, end_key, reverse>>,
                res |-> <<"items", iter_items(Self, start_key, end_key, reverse)>>]
    /\ UNCHANGED <<root, count, gen>>

\* del T[start_key:end_key] as the one call on a built tree.
DelItem(start_key, end_key) ==
    LET r == delslice(Self, start_key, end_key)
    IN  /\ last.op = "init"
        /\ root' = r.T.root
        /\ count' = r.T.count
        /\ last' = [op |-> "delitem", arg |-> <<start_key, end_key>>, res |-> r.res]
        /\ UNCHANGED gen

MinItem ==
    /\ last.op = "init"
    /\ last' = [op |-> "min_item", arg |-> <<>>, res |-> min_item(Self)]
    /\ UNCHANGED <<root, count, gen>>

MaxItem ==
    /\ last.op = "init"
    /\ last' = [op |-> "max_item", arg |-> <<>>, res |-> max_item(Self)]
    /\ UNCHANGED <<root, count, gen>>

\* remove_items(keys): `for key in keys: del tree[key]`.
RemoveItems(keys) ==
    LET r == remove_items(Self, keys)
    IN  /\ last.op = "init"
        /\ root' = r.T.root
        /\ count' = r.T.count
        /\ last' = [op |-> "remove_items", arg |-> keys, res |-> r.res]
        /\ UNCHANGED gen

Copy ==
    /\ last.op = "init"
    /\ last' = [op |-> "copy", arg |-> <<>>, res |-> copy(Self)]
    /\ UNCHANGED <<root, count, gen>>

NextCall ==
    \/ \E key \in Keys : GetValue(key)
    \/ \E key \in Keys : Contains(key)
    \/ \E key \in Keys : SuccItem(key)
    \/ \E key \in Keys : PrevItem(key)
    \/ \E key \in Keys : SuccKey(key)
    \/ \E key \in Keys : PrevKey(key)
    \/ \E keys \in Orders(KeysOf(root)) : RemoveItems(keys)
    \/ \E key \in Keys : FloorKey(key)
    \/ \E key \in Keys : CeilingKey(key)
    \/ \E start_key, end_key \in Keys \cup {NoKey}, reverse \in BOOLEAN :
          IterItems(start_key, end_key, reverse)
    \/ \E start_key, end_key \in Keys \cup {NoKey} : DelItem(start_key, end_key)
    \/ MinItem
    \/ MaxItem
    \/ last.op = "init" /\ PopMin
    \/ last.op = "init" /\ PopMax
    \/ last.op = "init" /\ PopItem
    \/ Copy

SpecCall == InitCall /\ [][NextCall]_vars

---------------------------------------------------------------------------
\* One call of the set algebra on a built tree.  Its keys are 1..MaxSetKey.
MaxSetKey == 3

SetKeys == 1..MaxSetKey

\* The other operands: one tree of at most two items, or two trees of at
\* most one item each.
OthersArgs ==
    LET small == {BinaryTree(items) : items \in {l \in ItemLists(SetKeys) : Len(l) <= 2}}
        tiny == {T \in small : T.count <= 1}
    IN  {<<T>> : T \in small} \cup (tiny \X tiny)

InitSet ==
    /\ \E items \in ItemLists(SetKeys) :
          LET T == BinaryTree(items) IN root = T.root /\ count = T.count
    /\ last = [op |-> "init", arg |-> <<>>, res |-> <<"None">>]
    /\ gen = NoGen

\* T.union(*trees); the frozenset rkeys is iterated in some order.
Union(trees) ==
    /\ last.op = "init"
    /\ \E order \in Orders(union_rkeys(Self, trees)) :
          last' = [op |-> "union", arg |-> trees, res |-> union(Self, trees, order)]
    /\ UNCHANGED <<root, count, gen>>

\* T.intersection(*trees)
Intersection(trees) ==
    /\ last.op = "init"
    /\ \E order \in Orders(intersection_rkeys(Self, trees)) :
          last' = [op |-> "intersection", arg |-> trees,
                   res |-> intersection(Self, trees, order)]
    /\ UNCHANGED <<root, count, gen>>

\* The trees whose state is exported.
SourceTrees == {BinaryTree(items) : items \in ItemLists(SetKeys)}

\* T.__setstate__(source.__getstate__()): what pickle.loads does with what
\* pickle.dumps took from source, T being any object of the class.
SetState(source) ==
    LET T == setstate(Self, getstate(source))
    IN  /\ last.op = "init"
        /\ root' = T.root
        /\ count' = T.count
        /\ last' = [op |-> "setstate", arg |-> <<source>>, res |-> <<"None">>]
        /\ UNCHANGED gen

NextSet ==
    \/ \E trees \in OthersArgs : Union(trees)
    \/ \E trees \in OthersArgs : Intersection(trees)
    \/ \E source \in SourceTrees : SetState(source)

SpecSet == InitSet /\ [][NextSet]_vars

---------------------------------------------------------------------------
\* One of the dict-like or list-making calls on a built tree.

\* What follows the key in pop(key, *args): nothing, one default, or two.
PopArgs == {<<>>} \cup {<<d>> : d \in Values} \cup {<<1, 2>>}

\* T.get(key, default); NoneValue is the default of the parameter.
Get(key, default) ==
    /\ last.op = "init"
    /\ last' = [op |-> "get", arg |-> <<key, default>>, res |-> get(Self, key, default)]
    /\ UNCHANGED <<root, count, gen>>

Pop(key, args) ==
    LET r == pop(Self, key, args)
    IN  /\ last.op = "init"
        /\ root' = r.T.root
        /\ count' = r.T.count
        /\ last' = [op |-> "pop", arg |-> <<key, args>>, res |-> r.res]
        /\ UNCHANGED gen

NSmallest(n, pop_) ==
    LET r == nsmallest(Self, n, pop_)
    IN  /\ last.op = "init"
        /\ root' = r.T.root
        /\ count' = r.T.count
        /\ last' = [op |-> "nsmallest", arg |-> <<n, pop_>>, res |-> r.res]
        /\ UNCHANGED gen

NLargest(n, pop_) ==
    LET r == nlargest(Self, n, pop_)
    IN  /\ last.op = "init"
        /\ root' = r.T.root
        /\ count' = r.T.count
        /\ last' = [op |-> "nlargest", arg |-> <<n, pop_>>, res |-> r.res]
        /\ UNCHANGED gen

\* pop_item() until the tree is empty.
PopItemAll ==
    LET r == pop_item_all(Self)
    IN  /\ last.op = "init"
        /\ root' = r.T.root
        /\ count' = r.T.count
        /\ last' = [op |-> "pop_item_all", arg |-> <<>>, res |-> r.res]
        /\ UNCHANGED gen

NextDict ==
    \/ \E key \in Keys, default \in Values \cup {NoneValue} : Get(key, default)
    \/ \E key \in Keys, args \in PopArgs : Pop(key, args)
    \/ \E n \in 0..(MaxKey + 1), pop_ \in BOOLEAN : NSmallest(n, pop_)
    \/ \E n \in 0..(MaxKey + 1), pop_ \in BOOLEAN : NLargest(n, pop_)
    \/ last.op = "init" /\ PopItem
    \/ PopItemAll

SpecDict == InitCall /\ [][NextDict]_vars

---------------------------------------------------------------------------
\* Inserts interleaved with a forward traversal over all keys.  The nodes
\* the generator refers to (node, stack) are kept as paths: insert only
\* fills an absent slot or overwrites a value, so a path names the same
\* node before and after it.
MaxIterKey == 3

IterKeys == 1..MaxIterKey

\* gen = T.iter_items()
IterItemsCall ==
    /\ gen.pc = "none"
    /\ gen' = [pc |-> IF is_empty(Self) THEN "list" ELSE "created",
               st |-> iter_start, out |-> <<>>, start |-> KeysOf(root)]
    /\ last' = [op |-> "iter_items", arg |-> <<NoKey, NoKey, FALSE>>, res |-> <<"None">>]
    /\ UNCHANGED <<root, count>>

\* next(gen): from where the generator stands to its next yield or its end.
GenNext ==
    /\ gen.pc \in {"list", "created", "yielded"}
    /\ LET f == get_in_range_func(Self, NoKey, NoKey)
           st == IF gen.pc = "list" THEN [gen.st EXCEPT !.done = TRUE]
                 ELSE IF gen.pc = "created" THEN iter_to_yield(root, iter_start, f, FALSE)
                 ELSE iter_to_yield(root, iter_after_yield(root, gen.st, FALSE), f, FALSE)
       IN  IF st.done
           THEN /\ gen' = [gen EXCEPT !.pc = "done", !.st = st]
                /\ last' = [op |-> "next", arg |-> <<>>, res |-> <<"StopIteration">>]
           ELSE LET node == Sub(root, st.node)
                IN  /\ gen' = [gen EXCEPT !.pc = "yielded", !.st = st,
                                          !.out = Append(gen.out, node.key)]
                    /\ last' = [op |-> "next", arg |-> <<>>,
                                res |-> <<"item", node.key, node.value>>]
    /\ UNCHANGED <<root, count>>

NextIter ==
    \/ \E key \in IterKeys, value \in Values : Insert(key, value)
    \/ IterItemsCall
    \/ GenNext

SpecIter == Init /\ [][NextIter]_vars

\* The client that holds the iterator keeps asking it for the next item.
SpecIterRun == SpecIter /\ WF_vars(GenNext)

---------------------------------------------------------------------------
\* What the claims are stated with: the content of a node graph read off by
\* plain structural recursion, independently of the tree's own algorithms.

\* The number of nodes reachable from node.
RECURSIVE Size(_)
Size(node) == IF node = Nil THEN 0 ELSE Size(node.left) + 1 + Size(node.right)

\* The (key, value) pairs stored under node.
RECURSIVE ItemsOf(_)
ItemsOf(node) ==
    IF node = Nil THEN {}
    ELSE ItemsOf(node.left) \cup {<<node.key, node.value>>} \cup ItemsOf(node.right)

\* The keys met by the walk left subtree, node, right subtree.
RECURSIVE Inorder(_)
Inorder(node) ==
    IF node = Nil THEN <<>>
    ELSE Inorder(node.left) \o <<node.key>> \o Inorder(node.right)

\* For every node, the keys to its left are smaller and those to its right greater.
RECURSIVE IsBST(_)
IsBST(node) ==
    \/ node = Nil
    \/ /\ \A k \in KeysOf(node.left) : k < node.key
       /\ \A k \in KeysOf(node.right) : k > node.key
       /\ IsBST(node.left)
       /\ IsBST(node.right)

StrictlyAscending(seq) == \A i \in 1..(Len(seq) - 1) : seq[i] < seq[i + 1]

\* The keys of S listed in ascending order.
RECURSIVE Ascending(_)
Ascending(S) ==
    IF S = {} THEN <<>>
    ELSE LET m == CHOOSE k \in S : \A j \in S : k <= j
         IN  <<m>> \o Ascending(S \ {m})

Reversed(seq) == [i \in 1..Len(seq) |-> seq[Len(seq) + 1 - i]]

\* node with the value stored at key k replaced by v, nothing else touched.
RECURSIVE WithValue(_, _, _)
WithValue(node, k, v) ==
    IF node = Nil THEN Nil
    ELSE [key |-> node.key,
          value |-> IF node.key = k THEN v ELSE node.value,
          left |-> WithValue(node.left, k, v),
          right |-> WithValue(node.right, k, v)]

\* The walk `k = min_key(); while True: k = succ_key(k)` until succ_key
\* raises, as the list of keys visited; it is cut after `fuel` further steps.
RECURSIVE SuccWalk(_, _, _)
SuccWalk(T, k, fuel) ==
    LET r == succ_key(T, k)
    IN  IF r[1] # "return" \/ fuel = 0 THEN <<k>>
        ELSE <<k>> \o SuccWalk(T, r[2], fuel - 1)

RECURSIVE PrevWalk(_, _, _)
PrevWalk(T, k, fuel) ==
    LET r == prev_key(T, k)
    IN  IF r[1] # "return" \/ fuel = 0 THEN <<k>>
        ELSE <<k>> \o PrevWalk(T, r[2], fuel - 1)

---------------------------------------------------------------------------
\* C1: after any sequence of insert and remove calls (failed removes
\* included, and the other mutating calls as well) the tree is a binary
\* search tree: at every node the keys to the left are strictly smaller and
\* the keys to the right strictly greater, so the in-order walk is strictly
\* ascending and lists every key once.
C1_BSTInvariant ==
    /\ IsBST(root)
    /\ StrictlyAscending(Inorder(root))
    /\ Inorder(root) = Ascending(KeysOf(root))

\* A remove has succeeded and left a root with two children.
C1_Witness ==
    /\ last.op = "remove"
    /\ last.res = <<"None">>
    /\ root # Nil
    /\ root.left # Nil
    /\ root.right # Nil
    /\ Size(root) >= 3

\* C2: in every reachable state count equals the number of nodes reachable
\* from the root, and count is 0 exactly when there is no root.
C2_CountIsSize ==
    /\ count = Size(root)
    /\ (count = 0) <=> (root = Nil)

\* A slice deletion has removed some items and left others.
C2_Witness ==
    /\ last.op = "delslice"
    /\ count >= 1
    /\ count < MaxKey - 1

\* C3: get_value(key) returns the stored value when key is in the tree and
\* signals KeyNotFound (KeyError) otherwise.
C3_GetValueSignalsMissing ==
    last.op = "get_value" =>
        LET key == last.arg[1]
        IN  IF key \in KeysOf(root)
            THEN \E v \in Values : <<key, v>> \in ItemsOf(root) /\ last.res = <<"return", v>>
            ELSE last.res = <<"KeyError">>

\* C4: `k in T` is True if and only if k is one of the keys stored in T.
C4_ContainsIffStored ==
    last.op = "contains" =>
        (last.res = <<"True">>) <=> (last.arg[1] \in KeysOf(root))

\* C5: after insert(k, v) a lookup of k returns v.  If k was present its
\* value is overwritten in place: no node is created, the shape and every
\* other item stay, count is unchanged.  If k was new, count grows by one,
\* exactly k is added and every other key keeps its value.
C5_Insert ==
    [][last'.op = "insert" =>
          LET k == last'.arg[1]
              v == last'.arg[2]
          IN  /\ get_value(Self', k) = <<"return", v>>
              /\ IF k \in KeysOf(root)
                 THEN /\ root' = WithValue(root, k, v)
                      /\ count' = count
                 ELSE /\ count' = count + 1
                      /\ Size(root') = Size(root) + 1
                      /\ ItemsOf(root') = ItemsOf(root) \cup {<<k, v>>}]_vars

\* An insert has been made into a tree that now holds at least three keys.
C5_Witness ==
    /\ last.op = "insert"
    /\ count >= 3
    /\ <<last.arg[1], last.arg[2]>> \in ItemsOf(root)

\* C6: remove(key) with key absent (or the tree empty) fails with KeyError
\* and leaves the node graph and count exactly as they were.
C6_RemoveAbsent ==
    [][(last'.op = "remove" /\ last'.arg[1] \notin KeysOf(root)) =>
          /\ last'.res = <<"KeyError">>
          /\ root' = root
          /\ count' = count]_vars

\* A remove has failed on a tree with at least two keys.
C6_Witness ==
    /\ last.op = "remove"
    /\ last.res = <<"KeyError">>
    /\ count >= 2
    /\ last.arg[1] \notin KeysOf(root)

\* C7: remove(k) of a present key succeeds, removes exactly k, leaves every
\* other key with the value it had, and lowers count by one.
C7_RemovePresent ==
    [][(last'.op = "remove" /\ last'.arg[1] \in KeysOf(root)) =>
          LET k == last'.arg[1]
          IN  /\ last'.res = <<"None">>
              /\ KeysOf(root') = KeysOf(root) \ {k}
              /\ ItemsOf(root') = {i \in ItemsOf(root) : i[1] # k}
              /\ Size(root') = Size(root) - 1
              /\ count' = count - 1]_vars

\* A remove has succeeded and at least three keys are left.
C7_Witness ==
    /\ last.op = "remove"
    /\ last.res = <<"None">>
    /\ last.arg[1] \notin KeysOf(root)
    /\ Size(root) >= 3

\* C8: from a tree built by inserts, removing each of its keys once, in any
\* order, never fails and ends with the empty tree: no root, count 0.
C8_Drain ==
    last.op = "remove_items" =>
        /\ last.res = <<"None">>
        /\ root = Nil
        /\ count = 0

\* All MaxKey keys of a full tree have been removed one by one.
C8_Witness ==
    /\ last.op = "remove_items"
    /\ Len(last.arg) = MaxKey
    /\ root = Nil

\* C9: on a non-empty tree the succ_key walk from min_key lists every key
\* once in ascending order and succ_key raises KeyError at max_key and only
\* there; the prev_key walk from max_key lists every key once in descending
\* order and prev_key raises KeyError at min_key and only there.
C9_Walks ==
    count > 0 =>
        LET all == Ascending(KeysOf(root))
            lo == min_key(Self)[2]
            hi == max_key(Self)[2]
        IN  /\ SuccWalk(Self, lo, count) = all
            /\ PrevWalk(Self, hi, count) = Reversed(all)
            /\ \A k \in KeysOf(root) :
                  /\ (succ_key(Self, k) = <<"KeyError">>) <=> (k = hi)
                  /\ (prev_key(Self, k) = <<"KeyError">>) <=> (k = lo)

\* succ_key has returned a key on a full tree whose root has two children.
C9_Witness ==
    /\ last.op = "succ_key"
    /\ last.res[1] = "return"
    /\ count = MaxKey
    /\ root.left # Nil
    /\ root.right # Nil

\* C10: succ_item(key) returns the item with the least key greater than key
\* when key is in the tree and is not its maximum; it raises KeyError when
\* key is the maximum, when key is not in the tree (larger keys or not), and
\* on the empty tree.
C10_SuccItem ==
    last.op = "succ_item" =>
        LET key == last.arg[1]
            greater == {k \in KeysOf(root) : k > key}
        IN  IF key \in KeysOf(root) /\ greater # {}
            THEN LET s == CHOOSE k \in greater : \A j \in greater : k <= j
                 IN  /\ last.res[1] = "item"
                     /\ last.res[2] = s
                     /\ <<s, last.res[3]>> \in ItemsOf(root)
            ELSE last.res = <<"KeyError">>

\* succ_item has raised KeyError for a key that is not in the tree although
\* the tree holds a larger key.
C10_Witness ==
    /\ last.op = "succ_item"
    /\ last.res = <<"KeyError">>
    /\ last.arg[1] \notin KeysOf(root)
    /\ \E k \in KeysOf(root) : k > last.arg[1]

\* C11: prev_item(key) returns the item with the greatest key less than key
\* when key is in the tree and is not its minimum; it raises KeyError when
\* key is the minimum, when key is not in the tree (smaller keys or not),
\* and on the empty tree.
C11_PrevItem ==
    last.op = "prev_item" =>
        LET key == last.arg[1]
            smaller == {k \in KeysOf(root) : k < key}
        IN  IF key \in KeysOf(root) /\ smaller # {}
            THEN LET s == CHOOSE k \in smaller : \A j \in smaller : k >= j
                 IN  /\ last.res[1] = "item"
                     /\ last.res[2] = s
                     /\ <<s, last.res[3]>> \in ItemsOf(root)
            ELSE last.res = <<"KeyError">>

\* prev_item has raised KeyError for a key that is not in the tree although
\* the tree holds a smaller key.
C11_Witness ==
    /\ last.op = "prev_item"
    /\ last.res = <<"KeyError">>
    /\ last.arg[1] \notin KeysOf(root)
    /\ \E k \in KeysOf(root) : k < last.arg[1]

\* C12: floor_key(k) returns k when k is in the tree, otherwise the greatest
\* key less than k; it raises KeyError exactly when the tree has no key
\* less than or equal to k.
C12_FloorKey ==
    last.op = "floor_key" =>
        LET k == last.arg[1]
            atmost == {j \in KeysOf(root) : j <= k}
        IN  IF atmost = {} THEN last.res = <<"KeyError">>
            ELSE IF k \in KeysOf(root) THEN last.res = <<"return", k>>
            ELSE /\ last.res[1] = "return"
                 /\ last.res[2] \in atmost
                 /\ \A j \in atmost : j <= last.res[2]

\* floor_key has returned a smaller key for a key that is not in the tree,
\* with a larger key in the tree as well.
C12_Witness ==
    /\ last.op = "floor_key"
    /\ last.res[1] = "return"
    /\ last.arg[1] \notin KeysOf(root)
    /\ last.res[2] < last.arg[1]
    /\ \E k \in KeysOf(root) : k > last.arg[1]

\* C13: ceiling_key(k) returns k when k is in the tree, otherwise the
\* smallest key greater than k; it raises KeyError exactly when the tree has
\* no key greater than or equal to k.
C13_CeilingKey ==
    last.op = "ceiling_key" =>
        LET k == last.arg[1]
            atleast == {j \in KeysOf(root) : j >= k}
        IN  IF atleast = {} THEN last.res = <<"KeyError">>
            ELSE IF k \in KeysOf(root) THEN last.res = <<"return", k>>
            ELSE /\ last.res[1] = "return"
                 /\ last.res[2] \in atleast
                 /\ \A j \in atleast : j >= last.res[2]

\* ceiling_key has returned a larger key for a key that is not in the tree,
\* with a smaller key in the tree as well.
C13_Witness ==
    /\ last.op = "ceiling_key"
    /\ last.res[1] = "return"
    /\ last.arg[1] \notin KeysOf(root)
    /\ last.res[2] > last.arg[1]
    /\ \E k \in KeysOf(root) : k < last.arg[1]

\* The items of node whose key k satisfies start_key <= k < end_key, an
\* absent bound (NoKey) not restricting.
ItemsBetween(node, start_key, end_key) ==
    {item \in ItemsOf(node) :
        /\ start_key = NoKey \/ start_key <= item[1]
        /\ end_key = NoKey \/ item[1] < end_key}

\* C14: a traversal run to completion emits exactly the items with
\* start <= key < end (an absent bound not restricting), each once, in
\* strictly ascending key order, or strictly descending when reverse is
\* true; over an empty tree it emits nothing.
C14_Traversal ==
    last.op = "iter_items" =>
        LET start_key == last.arg[1]
            end_key == last.arg[2]
            reverse == last.arg[3]
            items == last.res[2]
            keys == [i \in 1..Len(items) |-> items[i][1]]
        IN  /\ {items[i] : i \in 1..Len(items)} = ItemsBetween(root, start_key, end_key)
            /\ IF reverse THEN StrictlyAscending(Reversed(keys))
               ELSE StrictlyAscending(keys)
            /\ root = Nil => items = <<>>

\* A descending traversal with both bounds given has emitted two items or
\* more and has left out a key below the start and a key from the end on.
C14_Witness ==
    /\ last.op = "iter_items"
    /\ last.arg[1] # NoKey
    /\ last.arg[2] # NoKey
    /\ last.arg[3]
    /\ Len(last.res[2]) >= 2
    /\ \E k \in KeysOf(root) : k < last.arg[1]
    /\ \E k \in KeysOf(root) : k >= last.arg[2]

\* C15: del T[s:e] removes exactly the keys k with s <= k < e (an absent
\* bound not restricting) and leaves every other key with its value; it
\* raises nothing, also when the range or the tree is empty, and del T[:]
\* empties the tree.
C15_DelSlice ==
    [][last'.op = "delitem" =>
          LET start_key == last'.arg[1]
              end_key == last'.arg[2]
          IN  /\ last'.res = <<"None">>
              /\ ItemsOf(root') = ItemsOf(root) \ ItemsBetween(root, start_key, end_key)
              /\ count' = Size(root')
              /\ IsBST(root')
              /\ (start_key = NoKey /\ end_key = NoKey) => (root' = Nil /\ count' = 0)]_vars

\* del T[s:e] with both bounds given and two keys or more between them has
\* left no key inside the range and a key on either side of it.
C15_Witness ==
    /\ last.op = "delitem"
    /\ last.arg[1] # NoKey
    /\ last.arg[2] # NoKey
    /\ last.arg[2] - last.arg[1] >= 2
    /\ {k \in Keys : last.arg[1] <= k /\ k < last.arg[2]} \cap KeysOf(root) = {}
    /\ \E k \in KeysOf(root) : k < last.arg[1]
    /\ \E k \in KeysOf(root) : k >= last.arg[2]

\* C16: on a non-empty tree min_item() returns the item with the smallest
\* key and max_item() the item with the largest key, and neither call
\* changes the tree.
C16_MinMaxItem ==
    [][/\ (last'.op = "min_item" /\ root # Nil) =>
            /\ last'.res[1] = "item"
            /\ <<last'.res[2], last'.res[3]>> \in ItemsOf(root)
            /\ \A k \in KeysOf(root) : last'.res[2] <= k
            /\ root' = root /\ count' = count
       /\ (last'.op = "max_item" /\ root # Nil) =>
            /\ last'.res[1] = "item"
            /\ <<last'.res[2], last'.res[3]>> \in ItemsOf(root)
            /\ \A k \in KeysOf(root) : last'.res[2] >= k
            /\ root' = root /\ count' = count]_vars

\* min_item has answered on a tree whose smallest key is two levels or more
\* below the root.
C16_Witness ==
    /\ last.op = "min_item"
    /\ last.res[1] = "item"
    /\ root.left # Nil
    /\ root.left.left # Nil

\* The calls that need an item to be there.
NeedItem == {"min_item", "max_item", "pop_min", "pop_max", "pop_item"}

AllTrees == <<Self>> \o last.arg

\* C18: union(T, others...) returns a tree whose keys are the keys of all
\* operands, each key with the value held by the first operand, in the
\* order [T, others...], that contains the key.
C18_UnionValues ==
    last.op = "union" =>
        /\ last.res[1] = "tree"
        /\ KeysOf(last.res[2].root) = UNION {KeysOf(AllTrees[i].root) : i \in 1..Len(AllTrees)}
        /\ \A item \in ItemsOf(last.res[2].root) :
              LET first == CHOOSE i \in 1..Len(AllTrees) :
                               /\ item[1] \in KeysOf(AllTrees[i].root)
                               /\ \A j \in 1..(i - 1) : item[1] \notin KeysOf(AllTrees[j].root)
              IN  item \in ItemsOf(AllTrees[first].root)

\* C19: intersection(T, others...) returns a tree whose keys are exactly the
\* keys in T and in every other operand, each with the value it has in T;
\* T is left as it was.
C19_Intersection ==
    [][last'.op = "intersection" =>
          LET trees == last'.arg
              R == last'.res[2]
          IN  /\ last'.res[1] = "tree"
              /\ KeysOf(R.root) =
                    {k \in KeysOf(root) : \A i \in 1..Len(trees) : k \in KeysOf(trees[i].root)}
              /\ ItemsOf(R.root) \subseteq ItemsOf(root)
              /\ R.count = Size(R.root)
              /\ IsBST(R.root)
              /\ root' = root /\ count' = count]_vars

\* An intersection with one other operand has returned two keys, one of
\* them stored with another value in the other operand, and has left out
\* a key of T.
C19_Witness ==
    /\ last.op = "intersection"
    /\ Len(last.arg) = 1
    /\ last.res[1] = "tree"
    /\ last.res[2].count = 2
    /\ ItemsOf(last.res[2].root) \ ItemsOf(last.arg[1].root) # {}
    /\ KeysOf(root) \ KeysOf(last.res[2].root) # {}

\* C20: copy() of any tree, the empty one included, returns a tree with
\* exactly the key/value pairs of the source, built of nodes of its own.
C20_Copy ==
    last.op = "copy" =>
        /\ last.res[1] = "tree"
        /\ ItemsOf(last.res[2].root) = ItemsOf(root)
        /\ last.res[2].count = count

\* C21: exporting all items of a tree (__getstate__) and rebuilding from
\* them (__setstate__) gives a tree with the same count and the same
\* key/value pairs, whatever the receiving object held before.
C21_RoundTrip ==
    [][last'.op = "setstate" =>
          LET source == last'.arg[1]
          IN  /\ count' = source.count
              /\ ItemsOf(root') = ItemsOf(source.root)
              /\ Size(root') = count'
              /\ IsBST(root')]_vars

\* A state of three items was imported and the tree rebuilt from it has
\* another shape than the tree it was exported from.
C21_Witness ==
    /\ last.op = "setstate"
    /\ count = 3
    /\ root # last.arg[1].root

\* C22: get(k, d) returns the stored value of k if k is in the tree and
\* otherwise the default d of the caller (None when none was given).
C22_GetDefault ==
    last.op = "get" =>
        LET key == last.arg[1]
            default == last.arg[2]
        IN  IF key \in KeysOf(root)
            THEN <<key, value_of(last.res)>> \in ItemsOf(root)
            ELSE value_of(last.res) = default

\* C23: pop(k[, d]) with more than one default raises TypeError; otherwise,
\* with k present, it returns k's value and removes exactly k, and with k
\* absent it returns d if given and raises KeyError if not; whenever it
\* fails or returns the default the tree is unchanged.
C23_Pop ==
    [][last'.op = "pop" =>
          LET key == last'.arg[1]
              args == last'.arg[2]
          IN  IF Len(args) > 1
              THEN last'.res = <<"TypeError">> /\ root' = root /\ count' = count
              ELSE IF key \in KeysOf(root)
              THEN /\ last'.res[1] = "return"
                   /\ <<key, last'.res[2]>> \in ItemsOf(root)
                   /\ ItemsOf(root') = ItemsOf(root) \ {<<key, last'.res[2]>>}
                   /\ count' = count - 1
                   /\ IsBST(root')
              ELSE /\ last'.res = IF Len(args) = 1 THEN <<"return", args[1]>>
                                  ELSE <<"KeyError">>
                   /\ root' = root /\ count' = count]_vars

\* pop without a default has returned a value and left items in the tree.
C23_Witness ==
    /\ last.op = "pop"
    /\ Len(last.arg[2]) = 0
    /\ last.res[1] = "return"
    /\ count >= 2

\* The items stored under node in ascending key order.
RECURSIVE InorderItems(_)
InorderItems(node) ==
    IF node = Nil THEN <<>>
    ELSE InorderItems(node.left) \o <<<<node.key, node.value>>>> \o InorderItems(node.right)

\* C24: nsmallest(n, pop) returns the min(n, len(T)) smallest items in
\* ascending key order and nlargest(n, pop) the min(n, len(T)) largest in
\* descending key order; with pop false the tree is unchanged, with pop
\* true exactly the returned items are removed.
C24_NSmallestNLargest ==
    [][last'.op \in {"nsmallest", "nlargest"} =>
          LET n == last'.arg[1]
              pop_ == last'.arg[2]
              m == IF n < count THEN n ELSE count
              sorted == IF last'.op = "nsmallest" THEN InorderItems(root)
                        ELSE Reversed(InorderItems(root))
              expected == SubSeq(sorted, 1, m)
          IN  /\ last'.res = <<"return", expected>>
              /\ IF pop_
                 THEN /\ ItemsOf(root') = ItemsOf(root) \ {expected[i] : i \in 1..m}
                      /\ count' = count - m
                      /\ Size(root') = count'
                      /\ IsBST(root')
                 ELSE root' = root /\ count' = count]_vars

\* nlargest with pop true has returned two items and left items in the tree.
C24_Witness ==
    /\ last.op = "nlargest"
    /\ last.arg[2]
    /\ last.res[1] = "return"
    /\ Len(last.res[2]) = 2
    /\ last.arg[1] = 2
    /\ count >= 2

\* The node reached from node by stepping left whenever there is a left
\* child and otherwise right, until there is no child.
RECURSIVE ExtremeLeaf(_)
ExtremeLeaf(node) ==
    IF node.left # Nil THEN ExtremeLeaf(node.left)
    ELSE IF node.right # Nil THEN ExtremeLeaf(node.right)
    ELSE node

\* C25: on a non-empty tree pop_item removes and returns exactly the item of
\* the leaf reached by stepping left whenever possible and otherwise right;
\* all other items remain; pop_item repeated until the tree is empty
\* returns every item exactly once.
C25_PopItem ==
    [][/\ (last'.op = "pop_item" /\ root # Nil) =>
            LET leaf == ExtremeLeaf(root)
            IN  /\ last'.res = <<"item", leaf.key, leaf.value>>
                /\ ItemsOf(root') = ItemsOf(root) \ {<<leaf.key, leaf.value>>}
                /\ count' = count - 1
                /\ IsBST(root')
       /\ last'.op = "pop_item_all" =>
            /\ last'.res[1] = "return"
            /\ Len(last'.res[2]) = count
            /\ {last'.res[2][i] : i \in 1..Len(last'.res[2])} = ItemsOf(root)
            /\ root' = Nil /\ count' = 0]_vars

\* pop_item repeated has emptied a tree of three items or more, and the
\* first item it returned was not the one with the smallest key.
C25_Witness ==
    /\ last.op = "pop_item_all"
    /\ last.res[1] = "return"
    /\ Len(last.res[2]) >= 3
    /\ \E i \in 2..Len(last.res[2]) : last.res[2][i][1] < last.res[2][1][1]

\* C30: copy() of a non-empty tree has the physical shape of the source:
\* the same key at the root and, recursively, the same subtrees.
C30_CopyShape ==
    (last.op = "copy" /\ root # Nil) => last.res = <<"tree", Tree(root, count)>>

\* A tree whose root has two children, one of them with a child of its
\* own, was copied.
C30_Witness ==
    /\ last.op = "copy"
    /\ last.res[1] = "tree"
    /\ root.left # Nil
    /\ root.right # Nil
    /\ count >= 4

\* The node that holds key k under node, found by the search order; Nil if
\* there is none.
RECURSIVE NodeOf(_, _)
NodeOf(node, k) ==
    IF node = Nil THEN Nil
    ELSE IF k = node.key THEN node
    ELSE IF k < node.key THEN NodeOf(node.left, k)
    ELSE NodeOf(node.right, k)

\* The node with no left child at the end of the left links from node.
RECURSIVE LeftEnd(_)
LeftEnd(node) == IF node.left = Nil THEN node ELSE LeftEnd(node.left)

\* node without its LeftEnd, whose right child has taken its slot.
RECURSIVE WithoutLeftEnd(_)
WithoutLeftEnd(node) ==
    IF node.left = Nil THEN node.right
    ELSE [node EXCEPT !.left = WithoutLeftEnd(node.left)]

\* node after the node holding k, which has two children, took over the item
\* of its inorder successor and the successor was detached; every other
\* link is as it was.
RECURSIVE SuccessorMovedUp(_, _)
SuccessorMovedUp(node, k) ==
    IF k = node.key
    THEN [key |-> LeftEnd(node.right).key,
          value |-> LeftEnd(node.right).value,
          left |-> node.left,
          right |-> WithoutLeftEnd(node.right)]
    ELSE IF k < node.key THEN [node EXCEPT !.left = SuccessorMovedUp(node.left, k)]
    ELSE [node EXCEPT !.right = SuccessorMovedUp(node.right, k)]

\* C26: when remove(k) targets a node with two children, that node stays
\* where it is and receives the key and value of its inorder successor (the
\* leftmost node of its right subtree); the successor is detached, its right
\* child takes its slot, and every other link is unchanged.
C26_RemoveTwoChildren ==
    [][(/\ last'.op = "remove"
        /\ NodeOf(root, last'.arg[1]) # Nil
        /\ NodeOf(root, last'.arg[1]).left # Nil
        /\ NodeOf(root, last'.arg[1]).right # Nil) =>
          /\ last'.res = <<"None">>
          /\ root' = SuccessorMovedUp(root, last'.arg[1])
          /\ count' = count - 1]_vars

\* A remove has succeeded, and below the root there is a node whose key is
\* greater than the removed key while all keys to its left are smaller:
\* the place of a removed node that had a left subtree.
C26_Witness ==
    /\ last.op = "remove"
    /\ last.res = <<"None">>
    /\ root # Nil
    /\ root.left # Nil
    /\ root.left.left # Nil
    /\ root.left.key > last.arg[1]
    /\ \A k \in KeysOf(root.left.left) : k < last.arg[1]

\* node with a new leaf for key k attached at the absent slot the search
\* order leads to.
RECURSIVE WithLeaf(_, _, _)
WithLeaf(node, k, v) ==
    IF node = Nil THEN [key |-> k, value |-> v, left |-> Nil, right |-> Nil]
    ELSE IF k < node.key THEN [node EXCEPT !.left = WithLeaf(node.left, k, v)]
    ELSE [node EXCEPT !.right = WithLeaf(node.right, k, v)]

\* C27: insert of a new key restructures nothing: the new node is a leaf at
\* the absent slot reached by the descent (left when key < node.key, right
\* otherwise) and all links, keys and values of the nodes that existed are
\* unchanged.
C27_InsertLeaf ==
    [][(last'.op = "insert" /\ last'.arg[1] \notin KeysOf(root)) =>
          /\ root' = WithLeaf(root, last'.arg[1], last'.arg[2])
          /\ count' = count + 1]_vars

\* The key of the latest insert is in a leaf two levels below the root.
C27_Witness ==
    /\ last.op = "insert"
    /\ \E a, b \in {0, 1} :
          /\ root # Nil
          /\ Child(root, a) # Nil
          /\ Child(Child(root, a), b) = [key |-> last.arg[1], value |-> last.arg[2],
                                         left |-> Nil, right |-> Nil]

\* The number of nodes on the longest way down from node.
RECURSIVE Height(_)
Height(node) ==
    IF node = Nil THEN 0
    ELSE 1 + (IF Height(node.left) > Height(node.right)
              THEN Height(node.left) ELSE Height(node.right))

\* No node under node has a left child.
RECURSIVE NoLeftChild(_)
NoLeftChild(node) ==
    node = Nil \/ (node.left = Nil /\ NoLeftChild(node.right))

\* The tree is what inserting the keys 1..count in ascending order (with the
\* values it stores) into an empty tree gives.
BuiltAscending ==
    /\ KeysOf(root) = 1..count
    /\ Tree(root, count) =
          BinaryTree([i \in 1..count |-> <<i, CHOOSE v \in Values : <<i, v>> \in ItemsOf(root)>>])

\* C28: inserting the keys 1..N in ascending order into an empty tree gives
\* a tree of height N, a chain of right children, and there
\* succ_key(i) = i + 1 for i < N and prev_key(i) = i - 1 for i > 1.
C28_Degenerate ==
    BuiltAscending =>
        /\ Height(root) = count
        /\ NoLeftChild(root)
        /\ (last.op = "succ_key" /\ last.arg[1] < count) =>
              last.res = <<"return", last.arg[1] + 1>>
        /\ (last.op = "prev_key" /\ last.arg[1] > 1 /\ last.arg[1] <= count) =>
              last.res = <<"return", last.arg[1] - 1>>

\* prev_key has answered inside a tree built by three or more ascending
\* inserts.
C28_Witness ==
    /\ BuiltAscending
    /\ count >= 3
    /\ last.op = "prev_key"
    /\ last.arg[1] = count
    /\ last.res[1] = "return"

\* What the traversal has emitted is strictly ascending, holds only keys of
\* the tree and, at its end, every key the tree held when it began.
EmittedInOrder ==
    gen.pc # "none" =>
        /\ StrictlyAscending(gen.out)
        /\ {gen.out[i] : i \in 1..Len(gen.out)} \subseteq KeysOf(root)
        /\ gen.pc = "done" => gen.start \subseteq {gen.out[i] : i \in 1..Len(gen.out)}

\* C29: with inserts (and no remove or clear) interleaved with a suspended
\* forward traversal over all keys, the traversal still comes to its end
\* and emits strictly ascending keys, each at most once, all of them keys of
\* the tree, among them every key the tree held when the traversal started.
C29_TraversalWithInserts ==
    /\ []EmittedInOrder
    /\ (gen.pc # "none") ~> (gen.pc = "done")

\* A traversal has ended after emitting a key that was inserted while it
\* was suspended, and the tree holds a key it did not emit.
C29_Witness ==
    /\ gen.pc = "done"
    /\ gen.start # {}
    /\ \E i \in 1..Len(gen.out) : gen.out[i] \notin gen.start
    /\ KeysOf(root) \ {gen.out[i] : i \in 1..Len(gen.out)} # {}

=============================================================================
